---- MODULE Spec2Model ----
(***************************************************************************)
(* Model of the tic-tac-toe session of src/src/tic_tac_toe.rs: the Game    *)
(* struct (state, player_first, score_x, score_o), its input handlers,     *)
(* the Playing round, and the Board's win / full detection.                *)
(*                                                                         *)
(* Option<T> is modelled as a sequence: None is <<>> and Some(v) is <<v>>. *)
(* The State enum is a record with a tag field and the variant's fields.   *)
(***************************************************************************)
EXTENDS Integers, Sequences, FiniteSets, TLC

\* ---------------------------------------------------------------- bounds
\* The scores are usize counters; rounds that would take a score above
\* MaxScore are not explored.
MaxScore == 2
\* Longest sequence of cursor moves applied to one probe position.
MaxOps == 2

\* ---------------------------------------------------------------- types
X == "X"
O == "O"
Player == {X, O}

None == <<>>
Some(v) == <<v>>
is_some(o) == o # None

LeftCol == "LeftCol"
MidCol == "MidCol"
RightCol == "RightCol"
TopRow == "TopRow"
MidRow == "MidRow"
BottomRow == "BottomRow"
TLBRDiag == "TLBRDiag"
TRBLDiag == "TRBLDiag"
Win == {LeftCol, MidCol, RightCol, TopRow, MidRow, BottomRow, TLBRDiag, TRBLDiag}

Cells == 0..8
Square == {None} \cup {Some(p) : p \in Player}

\* Player::toggle
toggle(p) == IF p = X THEN O ELSE X

\* ---------------------------------------------------------------- Board
Board_new == [i \in Cells |-> None]

\* check_win_center with the centre row tried before the centre column
check_win_center_row_first(squares) ==
    IF is_some(squares[4])
    THEN LET player == squares[4][1] IN
         IF squares[3] = Some(player) /\ squares[5] = Some(player)
         THEN Some(<<MidRow, player>>)
         ELSE IF squares[1] = Some(player) /\ squares[7] = Some(player)
         THEN Some(<<MidCol, player>>)
         ELSE IF squares[0] = Some(player) /\ squares[8] = Some(player)
         THEN Some(<<TLBRDiag, player>>)
         ELSE IF squares[2] = Some(player) /\ squares[6] = Some(player)
         THEN Some(<<TRBLDiag, player>>)
         ELSE None
    ELSE None

\* check_win_center with the centre column read from cells 1 and 6
check_win_center_wrong_cell(squares) ==
    IF is_some(squares[4])
    THEN LET player == squares[4][1] IN
         IF squares[1] = Some(player) /\ squares[6] = Some(player)
         THEN Some(<<MidCol, player>>)
         ELSE IF squares[3] = Some(player) /\ squares[5] = Some(player)
         THEN Some(<<MidRow, player>>)
         ELSE IF squares[0] = Some(player) /\ squares[8] = Some(player)
         THEN Some(<<TLBRDiag, player>>)
         ELSE IF squares[2] = Some(player) /\ squares[6] = Some(player)
         THEN Some(<<TRBLDiag, player>>)
         ELSE None
    ELSE None

\* first block of check_win: the four lines through the centre
check_win_center(squares) ==
    IF is_some(squares[4])
    THEN LET player == squares[4][1] IN
         IF squares[1] = Some(player) /\ squares[7] = Some(player)
         THEN Some(<<MidCol, player>>)
         ELSE IF squares[3] = Some(player) /\ squares[5] = Some(player)
         THEN Some(<<MidRow, player>>)
         ELSE IF squares[0] = Some(player) /\ squares[8] = Some(player)
         THEN Some(<<TLBRDiag, player>>)
         ELSE IF squares[2] = Some(player) /\ squares[6] = Some(player)
         THEN Some(<<TRBLDiag, player>>)
         ELSE None
    ELSE None

\* check_win_top_left that takes two marks in a row for a complete line
check_win_top_left_two_cells(squares) ==
    IF is_some(squares[0])
    THEN LET player == squares[0][1] IN
         IF squares[1] = Some(player)
         THEN Some(<<TopRow, player>>)
         ELSE IF squares[3] = Some(player)
         THEN Some(<<LeftCol, player>>)
         ELSE None
    ELSE None

\* second block of check_win: the two remaining lines through cell 0
check_win_top_left(squares) ==
    IF is_some(squares[0])
    THEN LET player == squares[0][1] IN
         IF squares[1] = Some(player) /\ squares[2] = Some(player)
         THEN Some(<<TopRow, player>>)
         ELSE IF squares[3] = Some(player) /\ squares[6] = Some(player)
         THEN Some(<<LeftCol, player>>)
         ELSE None
    ELSE None

\* third block of check_win: the two remaining lines through cell 8
check_win_bottom_right(squares) ==
    IF is_some(squares[8])
    THEN LET player == squares[8][1] IN
         IF squares[6] = Some(player) /\ squares[7] = Some(player)
         THEN Some(<<BottomRow, player>>)
         ELSE IF squares[2] = Some(player) /\ squares[5] = Some(player)
         THEN Some(<<RightCol, player>>)
         ELSE None
    ELSE None

\* Board::check_win: the blocks in order, the first hit is returned
check_win(squares) ==
    IF is_some(check_win_center(squares)) THEN check_win_center(squares)
    ELSE IF is_some(check_win_top_left(squares)) THEN check_win_top_left(squares)
    ELSE check_win_bottom_right(squares)

\* is_full with any() in place of all()
is_full_any(squares) == \E i \in Cells : is_some(squares[i])

\* Board::is_full
is_full(squares) == \A i \in Cells : is_some(squares[i])

\* ---------------------------------------------------------------- State
Borrowed == [tag |-> "Borrowed"]
\* the process after a panic (unreachable!()): no handler runs any more
Panicked == [tag |-> "Panicked"]

\* Playing::new that ignores first_player and lets X move first
Playing_new_always_x(first_player) ==
    [tag |-> "Playing", cursor_pos |-> 0, next |-> X, board |-> Board_new]

\* Playing::new
Playing_new(first_player) ==
    [tag |-> "Playing", cursor_pos |-> 0, next |-> first_player, board |-> Board_new]

\* State::Done(Done { board, win })
Done(board, win) == [tag |-> "Done", board |-> board, win |-> win]

\* cursor_left stepping to the previous index, across rows
cursor_left_linear(playing) ==
    [playing EXCEPT !.cursor_pos = (@ + 8) % 9]

\* Playing::cursor_left
cursor_left(playing) ==
    [playing EXCEPT !.cursor_pos = ((@ \div 3) * 3) + ((@ + 2) % 3)]

\* Playing::cursor_right
cursor_right(playing) ==
    [playing EXCEPT !.cursor_pos = ((@ \div 3) * 3) + ((@ + 1) % 3)]

\* Playing::cursor_up
cursor_up(playing) ==
    [playing EXCEPT !.cursor_pos = (@ + 6) % 9]

\* cursor_down without the wrap-around
cursor_down_no_wrap(playing) ==
    [playing EXCEPT !.cursor_pos = @ + 3]

\* Playing::cursor_down
cursor_down(playing) ==
    [playing EXCEPT !.cursor_pos = (@ + 3) % 9]

\* make_move without the test for an occupied square
make_move_overwrite(playing) ==
    [playing EXCEPT !.board[playing.cursor_pos] = Some(playing.next),
                    !.next = toggle(playing.next)]

\* make_move with the test for an occupied square inverted
make_move_inverted(playing) ==
    IF ~is_some(playing.board[playing.cursor_pos])
    THEN playing
    ELSE [playing EXCEPT !.board[playing.cursor_pos] = Some(playing.next),
                         !.next = toggle(playing.next)]

\* make_move without the toggle of the player to move
make_move_no_toggle(playing) ==
    IF is_some(playing.board[playing.cursor_pos])
    THEN playing
    ELSE [playing EXCEPT !.board[playing.cursor_pos] = Some(playing.next)]

\* Playing::make_move
make_move(playing) ==
    IF is_some(playing.board[playing.cursor_pos])
    THEN playing
    ELSE [playing EXCEPT !.board[playing.cursor_pos] = Some(playing.next),
                         !.next = toggle(playing.next)]

\* ---------------------------------------------------------------- Game
\* Game::new
Game_new ==
    [state |-> [tag |-> "Playing", cursor_pos |-> 0, next |-> X, board |-> Board_new],
     score_x |-> 0,
     score_o |-> 0,
     player_first |-> X]

\* Game::borrow: the state moved out, State::Borrowed left in its place
borrow(g) == <<g.state, [g EXCEPT !.state = Borrowed]>>

\* input_left starting a new round when the round is over
input_left_restarts(g) ==
    IF g.state.tag = "Playing" THEN [g EXCEPT !.state = cursor_left(@)]
    ELSE IF g.state.tag = "Done" THEN [g EXCEPT !.state = Playing_new(g.player_first)]
    ELSE g

\* Game::input_left
input_left(g) ==
    IF g.state.tag = "Playing" THEN [g EXCEPT !.state = cursor_left(@)] ELSE g

\* Game::input_right
input_right(g) ==
    IF g.state.tag = "Playing" THEN [g EXCEPT !.state = cursor_right(@)] ELSE g

\* Game::input_up
input_up(g) ==
    IF g.state.tag = "Playing" THEN [g EXCEPT !.state = cursor_up(@)] ELSE g

\* input_down calling cursor_up
input_down_calls_up(g) ==
    IF g.state.tag = "Playing" THEN [g EXCEPT !.state = cursor_up(@)] ELSE g

\* Game::input_down
input_down(g) ==
    IF g.state.tag = "Playing" THEN [g EXCEPT !.state = cursor_down(@)] ELSE g

\* the Playing arm with the two score counters exchanged
input_space_playing_swapped(self, taken) ==
    LET playing == make_move(taken)
        won == check_win(playing.board)
    IN  IF is_some(won)
        THEN LET player == won[1][2] IN
             IF player = O
             THEN [self EXCEPT !.state = Done(playing.board, won),
                               !.score_x = @ + 1]
             ELSE [self EXCEPT !.state = Done(playing.board, won),
                               !.score_o = @ + 1]
        ELSE IF is_full(playing.board)
        THEN [self EXCEPT !.state = Done(playing.board, None)]
        ELSE [self EXCEPT !.state = playing]

\* the Playing arm that goes on after a win and ends the round only on a
\* full board
input_space_playing_plays_on(self, taken) ==
    LET playing == make_move(taken)
        won == check_win(playing.board)
    IN  IF is_full(playing.board)
        THEN IF is_some(won)
             THEN LET player == won[1][2] IN
                  IF player = O
                  THEN [self EXCEPT !.state = Done(playing.board, won),
                                    !.score_o = @ + 1]
                  ELSE [self EXCEPT !.state = Done(playing.board, won),
                                    !.score_x = @ + 1]
             ELSE [self EXCEPT !.state = Done(playing.board, None)]
        ELSE [self EXCEPT !.state = playing]

\* the Playing arm that does not move the round back into self.state when
\* the round goes on
input_space_playing_keeps_borrowed(self, taken) ==
    LET playing == make_move(taken)
        won == check_win(playing.board)
    IN  IF is_some(won)
        THEN LET player == won[1][2] IN
             IF player = O
             THEN [self EXCEPT !.state = Done(playing.board, won),
                               !.score_o = @ + 1]
             ELSE [self EXCEPT !.state = Done(playing.board, won),
                               !.score_x = @ + 1]
        ELSE IF is_full(playing.board)
        THEN [self EXCEPT !.state = Done(playing.board, None)]
        ELSE self

\* the Playing arm without the test for a full board
input_space_playing_no_draw(self, taken) ==
    LET playing == make_move(taken)
        won == check_win(playing.board)
    IN  IF is_some(won)
        THEN LET player == won[1][2] IN
             IF player = O
             THEN [self EXCEPT !.state = Done(playing.board, won),
                               !.score_o = @ + 1]
             ELSE [self EXCEPT !.state = Done(playing.board, won),
                               !.score_x = @ + 1]
        ELSE [self EXCEPT !.state = playing]

\* the Playing arm that records the player to move after the placement as
\* the winner
input_space_playing_credits_next(self, taken) ==
    LET playing == make_move(taken)
        won == check_win(playing.board)
    IN  IF is_some(won)
        THEN LET player == playing.next IN
             IF player = O
             THEN [self EXCEPT !.state = Done(playing.board, Some(<<won[1][1], player>>)),
                               !.score_o = @ + 1]
             ELSE [self EXCEPT !.state = Done(playing.board, Some(<<won[1][1], player>>)),
                               !.score_x = @ + 1]
        ELSE IF is_full(playing.board)
        THEN [self EXCEPT !.state = Done(playing.board, None)]
        ELSE [self EXCEPT !.state = playing]

\* the State::Playing arm of Game::input_space
input_space_playing(self, taken) ==
    LET playing == make_move(taken)
        won == check_win(playing.board)
    IN  IF is_some(won)
        THEN LET player == won[1][2] IN
             IF player = O
             THEN [self EXCEPT !.state = Done(playing.board, won),
                               !.score_o = @ + 1]
             ELSE [self EXCEPT !.state = Done(playing.board, won),
                               !.score_x = @ + 1]
        ELSE IF is_full(playing.board)
        THEN [self EXCEPT !.state = Done(playing.board, None)]
        ELSE [self EXCEPT !.state = playing]

\* the Done arm without the toggle of player_first
input_space_done_no_toggle(self) ==
    [self EXCEPT !.state = Playing_new(self.player_first)]

\* the Done arm clearing the scores for the new round
input_space_done_resets_scores(self) ==
    LET first == toggle(self.player_first) IN
    [self EXCEPT !.player_first = first, !.state = Playing_new(first),
                 !.score_x = 0, !.score_o = 0]

\* the Done arm that starts the round with player_first as it was and
\* toggles it afterwards
input_space_done_toggle_after(self) ==
    [self EXCEPT !.state = Playing_new(self.player_first),
                 !.player_first = toggle(self.player_first)]

\* the State::Done arm of Game::input_space
input_space_done(self) ==
    LET first == toggle(self.player_first) IN
    [self EXCEPT !.player_first = first, !.state = Playing_new(first)]

\* Game::input_space
input_space(g) ==
    LET taken == borrow(g)[1]
        self == borrow(g)[2]
    IN  CASE taken.tag = "Playing" -> input_space_playing(self, taken)
          [] taken.tag = "Done" -> input_space_done(self)
          [] OTHER -> [self EXCEPT !.state = Panicked]

\* ---------------------------------------------------------------- state
VARIABLES
    state,          \* Game.state
    player_first,   \* Game.player_first
    score_x,        \* Game.score_x
    score_o,        \* Game.score_o
    opener,         \* history: the player who moved first in the current round
    round_parity,   \* history: number of rounds started so far, modulo 2
    cw_board,       \* check_win probe: the board handed to check_win
    cw_done,        \* check_win probe: check_win has been applied
    cw_result,      \* check_win probe: what check_win returned
    cur_start,      \* cursor probe: the position the probe started from
    cur_playing,    \* cursor probe: the Playing round the moves are applied to
    cur_ops         \* cursor probe: the moves applied so far

gameVars == <<state, player_first, score_x, score_o>>
histVars == <<opener, round_parity>>
cwVars == <<cw_board, cw_done, cw_result>>
curVars == <<cur_start, cur_playing, cur_ops>>
vars == <<state, player_first, score_x, score_o, opener, round_parity,
          cw_board, cw_done, cw_result, cur_start, cur_playing, cur_ops>>

\* the Game value held by the variables
Game ==
    [state |-> state, score_x |-> score_x, score_o |-> score_o,
     player_first |-> player_first]

\* the variables take the fields of the Game value g
Store(g) ==
    /\ state' = g.state
    /\ player_first' = g.player_first
    /\ score_x' = g.score_x
    /\ score_o' = g.score_o

InitGame ==
    /\ state = Game_new.state
    /\ player_first = Game_new.player_first
    /\ score_x = Game_new.score_x
    /\ score_o = Game_new.score_o
    /\ opener = Game_new.state.next
    /\ round_parity = 0

InitCw ==
    /\ cw_board = Board_new
    /\ cw_done = FALSE
    /\ cw_result = None

InitCur ==
    /\ cur_start = 0
    /\ cur_playing = Playing_new(X)
    /\ cur_ops = <<>>

Init == InitGame /\ InitCw /\ InitCur

\* ---------------------------------------------------------------- actions
\* handle_events, KeyCode::Left
InputLeft ==
    /\ state.tag # "Panicked"
    /\ Store(input_left(Game))
    /\ UNCHANGED <<histVars, cwVars, curVars>>

\* handle_events, KeyCode::Right
InputRight ==
    /\ state.tag # "Panicked"
    /\ Store(input_right(Game))
    /\ UNCHANGED <<histVars, cwVars, curVars>>

\* handle_events, KeyCode::Up
InputUp ==
    /\ state.tag # "Panicked"
    /\ Store(input_up(Game))
    /\ UNCHANGED <<histVars, cwVars, curVars>>

\* handle_events, KeyCode::Down
InputDown ==
    /\ state.tag # "Panicked"
    /\ Store(input_down(Game))
    /\ UNCHANGED <<histVars, cwVars, curVars>>

\* handle_events, KeyCode::Char(' ')
InputSpace ==
    LET g == input_space(Game) IN
    /\ state.tag # "Panicked"
    /\ g.score_x <= MaxScore
    /\ g.score_o <= MaxScore
    /\ Store(g)
    /\ IF state.tag = "Done" /\ g.state.tag = "Playing"
       THEN opener' = g.state.next /\ round_parity' = 1 - round_parity
       ELSE UNCHANGED histVars
    /\ UNCHANGED <<cwVars, curVars>>

Next ==
    \/ InputLeft
    \/ InputRight
    \/ InputUp
    \/ InputDown
    \/ InputSpace

Spec == Init /\ [][Next]_vars

\* ------------------------------------------- check_win on arbitrary boards
\* every board over {None, Some(X), Some(O)}^9
AllBoards == [Cells -> Square]

InitCheckWin ==
    /\ InitGame
    /\ cw_board \in AllBoards
    /\ cw_done = FALSE
    /\ cw_result = None
    /\ InitCur

\* one call of Board::check_win on the probe board
ApplyCheckWin ==
    /\ ~cw_done
    /\ cw_done' = TRUE
    /\ cw_result' = check_win(cw_board)
    /\ UNCHANGED <<cw_board, gameVars, histVars, curVars>>

NextCheckWin == ApplyCheckWin

SpecCheckWin == InitCheckWin /\ [][NextCheckWin]_vars

\* ------------------------------------------- cursor moves from any position
\* a Playing round with the cursor at position p
PlayingAt(p) == [Playing_new(X) EXCEPT !.cursor_pos = p]

InitCursor ==
    /\ InitGame
    /\ InitCw
    /\ cur_start \in Cells
    /\ cur_playing = PlayingAt(cur_start)
    /\ cur_ops = <<>>

\* one call of Playing::cursor_left on the probe round
ProbeLeft ==
    /\ Len(cur_ops) < MaxOps
    /\ cur_playing' = cursor_left(cur_playing)
    /\ cur_ops' = Append(cur_ops, "left")
    /\ UNCHANGED <<cur_start, gameVars, histVars, cwVars>>

\* one call of Playing::cursor_right on the probe round
ProbeRight ==
    /\ Len(cur_ops) < MaxOps
    /\ cur_playing' = cursor_right(cur_playing)
    /\ cur_ops' = Append(cur_ops, "right")
    /\ UNCHANGED <<cur_start, gameVars, histVars, cwVars>>

\* one call of Playing::cursor_up on the probe round
ProbeUp ==
    /\ Len(cur_ops) < MaxOps
    /\ cur_playing' = cursor_up(cur_playing)
    /\ cur_ops' = Append(cur_ops, "up")
    /\ UNCHANGED <<cur_start, gameVars, histVars, cwVars>>

\* one call of Playing::cursor_down on the probe round
ProbeDown ==
    /\ Len(cur_ops) < MaxOps
    /\ cur_playing' = cursor_down(cur_playing)
    /\ cur_ops' = Append(cur_ops, "down")
    /\ UNCHANGED <<cur_start, gameVars, histVars, cwVars>>

NextCursor ==
    \/ ProbeLeft
    \/ ProbeRight
    \/ ProbeUp
    \/ ProbeDown

SpecCursor == InitCursor /\ [][NextCursor]_vars

\* ---------------------------------------------------------------- properties
\* the eight lines in the order in which check_win is documented to try them
LineOrder == <<MidCol, MidRow, TLBRDiag, TRBLDiag, TopRow, LeftCol, BottomRow, RightCol>>

\* the three cells of a line
LineCells(line) ==
    CASE line = MidCol -> {1, 4, 7}
      [] line = MidRow -> {3, 4, 5}
      [] line = TLBRDiag -> {0, 4, 8}
      [] line = TRBLDiag -> {2, 4, 6}
      [] line = TopRow -> {0, 1, 2}
      [] line = LeftCol -> {0, 3, 6}
      [] line = BottomRow -> {6, 7, 8}
      [] line = RightCol -> {2, 5, 8}

\* the three cells of line all hold player p
LineOwned(squares, line, p) == \A c \in LineCells(line) : squares[c] = Some(p)

\* some line is fully occupied by one player
HasLine(squares) == \E line \in Win : \E p \in Player : LineOwned(squares, line, p)

\* every cell is occupied
AllOccupied(squares) == \A c \in Cells : squares[c] # None

ScoreOf(g, p) == IF p = X THEN g.score_x ELSE g.score_o

\* the session is Playing and the cursor is on a free cell
FreeConfirm == state.tag = "Playing" /\ state.board[state.cursor_pos] = None

\* the session is Playing and the cursor is on an occupied cell
OccupiedConfirm == state.tag = "Playing" /\ state.board[state.cursor_pos] # None

\* the board with the mark of the player to move put on the cursor cell
Placed == [state.board EXCEPT ![state.cursor_pos] = Some(state.next)]

\* C1: in Playing, a confirm on a free cell that completes a line ends the
\* round as Done with Some((line, player)), where player is the player who
\* was next to move before the confirm and line is a line that player now
\* owns; that player's score goes up by exactly one, the other score and
\* player_first are unchanged.
C1_WinScoresMover ==
    (FreeConfirm /\ HasLine(Placed)) =>
        LET g == input_space(Game) IN
        /\ g.state.tag = "Done"
        /\ g.state.board = Placed
        /\ is_some(g.state.win)
        /\ g.state.win[1][2] = state.next
        /\ g.state.win[1][1] \in Win
        /\ LineOwned(Placed, g.state.win[1][1], state.next)
        /\ ScoreOf(g, state.next) = ScoreOf(Game, state.next) + 1
        /\ ScoreOf(g, toggle(state.next)) = ScoreOf(Game, toggle(state.next))
        /\ g.player_first = player_first

\* O is about to complete a line, and the confirm ends the round
C1_Witness ==
    /\ FreeConfirm
    /\ HasLine(Placed)
    /\ state.next = O
    /\ input_space(Game).state.tag = "Done"
    /\ input_space(Game).score_o = score_o + 1

\* C2: in every reachable Playing state a confirm with the cursor on an
\* occupied cell changes nothing: state (phase, board, next, cursor), both
\* scores and player_first are as before, and no panic happens.
C2_OccupiedConfirmNoOp ==
    OccupiedConfirm => input_space(Game) = Game

\* the cursor is on an occupied cell and the confirm returns the same Game
C2_Witness ==
    /\ OccupiedConfirm
    /\ input_space(Game) = Game

\* C3: a confirm on a free cell gives Done with win = None exactly when the
\* resulting board is full and has no line owned by one player; then both
\* scores are unchanged. A placement that fills the board and completes a
\* line gives Done with a recorded win.
C3_DrawIffFullNoLine ==
    FreeConfirm =>
        LET g == input_space(Game)
            draw == g.state.tag = "Done" /\ g.state.win = None
        IN  /\ draw <=> (AllOccupied(Placed) /\ ~HasLine(Placed))
            /\ draw => /\ g.state.board = Placed
                       /\ g.score_x = score_x
                       /\ g.score_o = score_o
            /\ (AllOccupied(Placed) /\ HasLine(Placed)) =>
                   (g.state.tag = "Done" /\ is_some(g.state.win))

\* the ninth placement is about to fill the board without a line
C3_Witness ==
    /\ FreeConfirm
    /\ AllOccupied(Placed)
    /\ ~HasLine(Placed)
    /\ input_space(Game).state.tag = "Done"
    /\ input_space(Game).state.win = None

\* C4: the step that leaves Done starts a Playing round with an empty board,
\* cursor 0, unchanged scores and the player to move being the one who did
\* not open the finished round; the openers of the rounds are X, O, X, O, ...
C4_OpenersAlternate ==
    /\ [](opener = IF round_parity = 0 THEN X ELSE O)
    /\ [][state.tag = "Done" =>
            /\ state'.tag = "Playing"
            /\ state'.board = Board_new
            /\ state'.cursor_pos = 0
            /\ state'.next = toggle(opener)
            /\ opener' = state'.next
            /\ round_parity' = 1 - round_parity
            /\ score_x' = score_x
            /\ score_o' = score_o]_vars

\* a third or later round, opened by X again, after at least one won round
C4_Witness ==
    /\ state = Playing_new(X)
    /\ opener = X
    /\ round_parity = 0
    /\ score_x + score_o >= 1

\* C5: on every board over {None, X, O}^9 check_win returns the first line
\* of LineOrder fully occupied by one player, with that player, and None
\* exactly when no line is fully occupied by one player; with the centre
\* row and the centre column both complete it returns MidCol.
C5_CheckWinFirstLine ==
    cw_done =>
        /\ (cw_result = None) <=> ~HasLine(cw_board)
        /\ \A i \in 1..Len(LineOrder) : \A p \in Player :
              ( /\ LineOwned(cw_board, LineOrder[i], p)
                /\ \A j \in 1..(i - 1) : \A q \in Player :
                      ~LineOwned(cw_board, LineOrder[j], q) )
              => cw_result = Some(<<LineOrder[i], p>>)
        /\ \A p \in Player :
              (LineOwned(cw_board, MidRow, p) /\ LineOwned(cw_board, MidCol, p))
              => cw_result = Some(<<MidCol, p>>)

\* centre row and centre column both complete, MidCol reported
C5_Witness ==
    /\ cw_done
    /\ LineOwned(cw_board, MidRow, O)
    /\ LineOwned(cw_board, MidCol, O)
    /\ cw_result = Some(<<MidCol, O>>)

\* the cells of the scenario X:4, O:0, X:1, O:2, X:7, in order
ScenarioCells == <<4, 0, 1, 2, 7>>

\* the player making the k-th placement of the scenario
ScenarioPlayer(k) == IF k % 2 = 1 THEN X ELSE O

\* the board after the first k placements of the scenario
ScenarioBoard(k) ==
    [c \in Cells |->
        IF \E j \in 1..k : ScenarioCells[j] = c
        THEN Some(ScenarioPlayer(CHOOSE j \in 1..k : ScenarioCells[j] = c))
        ELSE None]

\* C6: from the fresh session (0-0, X first) the placements X:4, O:0, X:1,
\* O:2, X:7, each made by moving the cursor to the cell and confirming,
\* leave the session Playing after the first four and after the fifth give
\* Done with Some((MidCol, X)), score_x = 1 and score_o = 0.
C6_ScenarioMidColWin ==
    \A k \in 0..4 :
        ( /\ state.tag = "Playing"
          /\ score_x = 0
          /\ score_o = 0
          /\ player_first = X
          /\ state.board = ScenarioBoard(k)
          /\ state.cursor_pos = ScenarioCells[k + 1] )
        => /\ state.next = ScenarioPlayer(k + 1)
           /\ LET g == input_space(Game) IN
              IF k < 4
              THEN g = [Game EXCEPT !.state.board = ScenarioBoard(k + 1),
                                    !.state.next = ScenarioPlayer(k + 2)]
              ELSE /\ g.state = Done(ScenarioBoard(5), Some(<<MidCol, X>>))
                   /\ g.score_x = 1
                   /\ g.score_o = 0
                   /\ g.player_first = X

\* the session after the fifth placement of the scenario
C6_Witness ==
    /\ state = Done(ScenarioBoard(5), Some(<<MidCol, X>>))
    /\ score_x = 1
    /\ score_o = 0
    /\ player_first = X
    /\ round_parity = 0

\* the cursor of the probe round
CurPos == cur_playing.cursor_pos

\* two moves that are meant to undo each other
InversePairs ==
    {<<"left", "right">>, <<"right", "left">>, <<"up", "down">>, <<"down", "up">>}

\* position reached from p by each of the four moves
LeftOf(p) == cursor_left(PlayingAt(p)).cursor_pos
RightOf(p) == cursor_right(PlayingAt(p)).cursor_pos
UpOf(p) == cursor_up(PlayingAt(p)).cursor_pos
DownOf(p) == cursor_down(PlayingAt(p)).cursor_pos

\* C7: each of the four cursor moves is a bijection on the positions 0..8
\* (it stays in 0..8, no other position has the same image as the start
\* position, and the start position is the image of some position), and
\* left then right, right then left, up then down, down then up lead back
\* to the start position.
C7_CursorBijections ==
    /\ CurPos \in Cells
    /\ \A q \in Cells \ {cur_start} :
          /\ LeftOf(q) # LeftOf(cur_start)
          /\ RightOf(q) # RightOf(cur_start)
          /\ UpOf(q) # UpOf(cur_start)
          /\ DownOf(q) # DownOf(cur_start)
    /\ \E q \in Cells : LeftOf(q) = cur_start
    /\ \E q \in Cells : RightOf(q) = cur_start
    /\ \E q \in Cells : UpOf(q) = cur_start
    /\ \E q \in Cells : DownOf(q) = cur_start
    /\ (Len(cur_ops) = 2 /\ cur_ops \in InversePairs) => CurPos = cur_start

\* left from the first cell of the middle row wraps to 5, right leads back
C7_Witness ==
    /\ cur_start = 3
    /\ cur_ops = <<"left", "right">>
    /\ CurPos = 3

Row(c) == c \div 3
Col(c) == c % 3
CellAt(r, c) == (3 * r) + c

\* C8: in Playing a navigate input changes only the cursor: left/right keep
\* the row and shift the column by -1/+1 modulo 3, up/down keep the column
\* and shift the row by -1/+1 modulo 3; board, next, scores, player_first
\* and the Playing phase are unchanged.
C8_NavigateMovesOnlyCursor ==
    state.tag = "Playing" =>
        LET c == state.cursor_pos IN
        /\ input_left(Game) =
              [Game EXCEPT !.state.cursor_pos = CellAt(Row(c), (Col(c) + 2) % 3)]
        /\ input_right(Game) =
              [Game EXCEPT !.state.cursor_pos = CellAt(Row(c), (Col(c) + 1) % 3)]
        /\ input_up(Game) =
              [Game EXCEPT !.state.cursor_pos = CellAt((Row(c) + 2) % 3, Col(c))]
        /\ input_down(Game) =
              [Game EXCEPT !.state.cursor_pos = CellAt((Row(c) + 1) % 3, Col(c))]

\* a round in progress with the cursor in the bottom right corner, from
\* which down wraps to the top row and right to the first column
C8_Witness ==
    /\ state.tag = "Playing"
    /\ state.cursor_pos = 8
    /\ state.board # Board_new
    /\ input_down(Game).state.cursor_pos = 2
    /\ input_right(Game).state.cursor_pos = 6

\* C9: in Done every navigate input leaves the whole Game unchanged (final
\* board, recorded outcome, scores, player_first, and the Done phase); the
\* confirm is the input that leaves Done.
C9_NavigateInDoneNoOp ==
    state.tag = "Done" =>
        /\ input_left(Game) = Game
        /\ input_right(Game) = Game
        /\ input_up(Game) = Game
        /\ input_down(Game) = Game
        /\ input_space(Game).state.tag = "Playing"

\* a won round, on which a navigate input has no effect
C9_Witness ==
    /\ state.tag = "Done"
    /\ is_some(state.win)
    /\ input_left(Game) = Game
    /\ input_up(Game) = Game

\* some score differs between the two states of a step
ScoreChanged == score_x' # score_x \/ score_o' # score_o

\* the step ends a round with a recorded win
EntersWon == state.tag = "Playing" /\ state'.tag = "Done" /\ is_some(state'.win)

\* C10: no step decreases score_x or score_o; a step changes a score only
\* when it goes from Playing to Done with a recorded win, and then exactly
\* one counter goes up by exactly one; the step that leaves Done changes
\* neither score.
C10_ScoresMonotone ==
    [][ /\ score_x' >= score_x
        /\ score_o' >= score_o
        /\ ScoreChanged <=> EntersWon
        /\ ScoreChanged => score_x' + score_o' = score_x + score_o + 1
        /\ state.tag = "Done" => ~ScoreChanged ]_vars

\* a new round begun with the scores of two won rounds kept
C10_Witness ==
    /\ state = Playing_new(X)
    /\ score_x = 1
    /\ score_o = 1

\* the lines fully occupied by one player
OwnedLines(squares) ==
    {line \in Win : \E p \in Player : LineOwned(squares, line, p)}

\* the players who fully occupy some line
LineOwners(squares) ==
    {p \in Player : \E line \in Win : LineOwned(squares, line, p)}

\* C11 as stated: every board reachable by play has at most one of the
\* eight lines fully occupied by a single player.
C11_AtMostOneLine ==
    Cardinality(OwnedLines(state.board)) <= 1

\* C11 as amended: on every board reachable by play at most one player owns
\* a line and at most two lines are owned; a Playing board has none, and a
\* recorded win names the one player who owns a line. The order of
\* check_win therefore never affects the reported winner; with two lines
\* completed at once it decides which of them is recorded.
C11_OneLineOwner ==
    [](
    /\ Cardinality(LineOwners(state.board)) <= 1
    /\ Cardinality(OwnedLines(state.board)) <= 2
    /\ state.tag = "Playing" => OwnedLines(state.board) = {}
    /\ (state.tag = "Done" /\ is_some(state.win)) =>
          /\ LineOwners(state.board) = {state.win[1][2]}
          /\ state.win[1][1] \in OwnedLines(state.board)
    )

\* a finished round whose last mark completed two lines at once
C11_Witness ==
    /\ state.tag = "Done"
    /\ is_some(state.win)
    /\ Cardinality(OwnedLines(state.board)) = 2

\* the phases a session can be in between two inputs
Phases == {"Playing", "Done"}

\* n presses of the right key, n in 0..2
RightBy(g, n) ==
    IF n = 0 THEN g
    ELSE IF n = 1 THEN input_right(g)
    ELSE input_right(input_right(g))

\* n presses of the down key, n in 0..2
DownBy(g, n) ==
    IF n = 0 THEN g
    ELSE IF n = 1 THEN input_down(g)
    ELSE input_down(input_down(g))

\* the navigate inputs that take the cursor of a Playing session to cell c
MoveTo(g, c) ==
    DownBy(RightBy(g, (Col(c) + 3 - Col(g.state.cursor_pos)) % 3),
           (Row(c) + 3 - Row(g.state.cursor_pos)) % 3)

\* the free cell with the lowest index
FirstFree(squares) ==
    CHOOSE c \in Cells :
        /\ squares[c] = None
        /\ \A d \in Cells : d < c => squares[d] # None

\* at most n times: move the cursor to the first free cell and confirm,
\* stopping when the session is no longer Playing
RECURSIVE PlayOut(_, _)
PlayOut(g, n) ==
    IF n = 0 \/ g.state.tag # "Playing" \/ AllOccupied(g.state.board)
    THEN g
    ELSE PlayOut(input_space(MoveTo(g, FirstFree(g.state.board))), n - 1)

\* C12: the session has no terminal state: in every reachable state the
\* session is Playing or Done and every navigate and confirm input is
\* handled and leaves it Playing or Done; a confirm in Done leads to
\* Playing; and from every Playing state some sequence of at most nine
\* navigate-and-confirm inputs leads to Done.
C12_NoTerminalState ==
    [](
    /\ state.tag \in Phases
    /\ input_left(Game).state.tag \in Phases
    /\ input_right(Game).state.tag \in Phases
    /\ input_up(Game).state.tag \in Phases
    /\ input_down(Game).state.tag \in Phases
    /\ input_space(Game).state.tag \in Phases
    /\ state.tag = "Done" => input_space(Game).state.tag = "Playing"
    /\ state.tag = "Playing" => PlayOut(Game, 9).state.tag = "Done"
    )

\* a round in progress in the second round of a session, from which the
\* inputs of PlayOut end the round
C12_Witness ==
    /\ state.tag = "Playing"
    /\ round_parity = 1
    /\ state.board # Board_new
    /\ state.cursor_pos # FirstFree(state.board)
    /\ PlayOut(Game, 9).state.tag = "Done"

\* the cells on which two boards differ
ChangedCells(a, b) == {c \in Cells : a[c] # b[c]}

\* C13: a confirm with the cursor on a free cell in Playing changes exactly
\* one cell of the board: the cursor cell goes from empty to the mark of
\* the player who was to move, all other cells, the cursor and the phase of
\* the round struct are unchanged and the player to move is toggled; and no
\* step of a round changes or empties an occupied cell.
C13_ConfirmPlacesOneMark ==
    /\ [](FreeConfirm =>
            LET m == make_move(state) IN
            /\ ChangedCells(state.board, m.board) = {state.cursor_pos}
            /\ m.board[state.cursor_pos] = Some(state.next)
            /\ m.cursor_pos = state.cursor_pos
            /\ m.next = toggle(state.next)
            /\ m.tag = "Playing"
            /\ input_space(Game).state.board = m.board)
    /\ [][state.tag = "Playing" =>
            /\ state'.tag \in Phases
            /\ \A c \in Cells :
                  state.board[c] # None => state'.board[c] = state.board[c]
            /\ Cardinality(ChangedCells(state.board, state'.board)) <= 1]_vars

\* a round with marks of both players and the cursor on a free cell
C13_Witness ==
    /\ FreeConfirm
    /\ \E c \in Cells : state.board[c] = Some(X)
    /\ \E c \in Cells : state.board[c] = Some(O)
    /\ make_move(state).board[state.cursor_pos] = Some(state.next)
    /\ make_move(state).next = toggle(state.next)

\* the values of Game.state that are not a round
Placeholders == {Borrowed, Panicked}

\* C14: State::Borrowed is never the state before or after an input: the
\* state is never Borrowed, input_space takes a state other than Borrowed
\* out of the Game (so its unreachable!() arm is not executed and nothing
\* panics), and after input_space, input_left, input_right, input_up and
\* input_down the state is again not Borrowed.
C14_NeverBorrowed ==
    [](
    /\ state \notin Placeholders
    /\ borrow(Game)[1] # Borrowed
    /\ borrow(Game)[2].state = Borrowed
    /\ input_space(Game).state \notin Placeholders
    /\ input_left(Game).state \notin Placeholders
    /\ input_right(Game).state \notin Placeholders
    /\ input_up(Game).state \notin Placeholders
    /\ input_down(Game).state \notin Placeholders
    )

\* a round in progress after some placements: input_space leaves Borrowed
\* in the Game while it works and puts a Playing state back
C14_Witness ==
    /\ FreeConfirm
    /\ state.board # Board_new
    /\ borrow(Game)[2].state = Borrowed
    /\ input_space(Game).state.tag = "Playing"

\* the player to move first in the round that begins at the next
\* acknowledge of a finished round (in Playing: after the round is played
\* out by the inputs of PlayOut)
NextOpener ==
    IF state.tag = "Done"
    THEN input_space(Game).state.next
    ELSE input_space(PlayOut(Game, 9)).state.next

\* C15 as stated: in every reachable state player_first is the player who
\* opens the next round.
C15_FirstPlayerOpensNext ==
    NextOpener = player_first

\* C15 as amended: in every reachable state player_first is the player who
\* opened the current round (the one being played or just finished); the
\* round that begins at the next acknowledge is opened by the other player.
C15_FirstPlayerOpenedCurrent ==
    [](
    /\ player_first = opener
    /\ NextOpener = toggle(player_first)
    /\ (state.tag = "Playing" /\ state.board = Board_new) => state.next = player_first
    )

\* the second round is over: O opened it and X opens the third
C15_Witness ==
    /\ state.tag = "Done"
    /\ opener = O
    /\ player_first = O
    /\ input_space(Game).state.next = X

\* C16: in every reachable Playing state the cursor is an index in 0..8, so
\* the square that make_move reads and writes exists; every navigate input
\* and every confirm that leaves the round Playing keeps it in 0..8.
C16_CursorInBounds ==
    [](
    state.tag = "Playing" =>
        /\ state.cursor_pos \in Cells
        /\ state.cursor_pos \in DOMAIN state.board
        /\ input_left(Game).state.cursor_pos \in Cells
        /\ input_right(Game).state.cursor_pos \in Cells
        /\ input_up(Game).state.cursor_pos \in Cells
        /\ input_down(Game).state.cursor_pos \in Cells
        /\ input_space(Game).state.tag = "Playing" =>
              input_space(Game).state.cursor_pos \in Cells
    )

\* the cursor on the bottom left cell, where a mark was placed, and from
\* where down wraps to the top row
C16_Witness ==
    /\ state.tag = "Playing"
    /\ state.cursor_pos = 6
    /\ state.board[6] # None
    /\ input_down(Game).state.cursor_pos = 0

\* the empty cells of a board
FreeCells(squares) == {c \in Cells : squares[c] = None}

\* C17: in every reachable Playing state the board has an empty cell and no
\* line fully occupied by one player (check_win is None, is_full is false);
\* a confirm whose placement completes a line or fills the board never
\* leaves the round Playing.
C17_PlayingBoardOpen ==
    [](
    state.tag = "Playing" =>
        /\ check_win(state.board) = None
        /\ ~is_full(state.board)
        /\ ~HasLine(state.board)
        /\ FreeCells(state.board) # {}
        /\ (FreeConfirm /\ (HasLine(Placed) \/ AllOccupied(Placed))) =>
              input_space(Game).state.tag = "Done"
    )

\* a round still Playing with eight marks and no line
C17_Witness ==
    /\ state.tag = "Playing"
    /\ Cardinality(FreeCells(state.board)) = 1
    /\ check_win(state.board) = None
    /\ ~is_full(state.board)

\* the number of marks of player p on a board
CountOf(squares, p) == Cardinality({c \in Cells : squares[c] = Some(p)})

\* marks of the opener of the round (player_first) minus marks of the other
Lead == CountOf(state.board, player_first) - CountOf(state.board, toggle(player_first))

\* C18: in every reachable state, with player_first the opener of the
\* current round, the opener has as many marks on the board as the other
\* player or one more; in Playing the player to move is the opener exactly
\* when the counts are equal and the other player exactly when the opener
\* has one more.
C18_MarksAlternate ==
    [](
    /\ Lead \in {0, 1}
    /\ state.tag = "Playing" =>
          /\ (state.next = player_first) <=> (Lead = 0)
          /\ (state.next = toggle(player_first)) <=> (Lead = 1)
    )

\* a round opened by O in which O has one mark more and X is to move
C18_Witness ==
    /\ state.tag = "Playing"
    /\ player_first = O
    /\ CountOf(state.board, O) = 2
    /\ CountOf(state.board, X) = 1
    /\ state.next = X

\* the player who placed the last mark of the current round: the opener
\* when the opener has one mark more, the other player otherwise
LastMover == IF Lead = 1 THEN player_first ELSE toggle(player_first)

\* C19: in every reachable Done state the recorded outcome agrees with the
\* final board: with Some((line, p)) the three cells of line hold p, p
\* placed the last mark and the other player owns no line; with None the
\* board is full and no line is owned by one player. The confirm that ends
\* a round with a win records the player who was to move.
C19_OutcomeMatchesBoard ==
    [](
    /\ (state.tag = "Done" /\ is_some(state.win)) =>
          /\ state.win[1][1] \in Win
          /\ state.win[1][2] \in Player
          /\ LineOwned(state.board, state.win[1][1], state.win[1][2])
          /\ state.win[1][2] = LastMover
          /\ \A line \in Win :
                ~LineOwned(state.board, line, toggle(state.win[1][2]))
    /\ (state.tag = "Done" /\ state.win = None) =>
          /\ AllOccupied(state.board)
          /\ ~HasLine(state.board)
    /\ (FreeConfirm /\ input_space(Game).state.tag = "Done"
                    /\ is_some(input_space(Game).state.win)) =>
          input_space(Game).state.win[1][2] = state.next
    )

\* a round opened by X and won by O with the sixth mark
C19_Witness ==
    /\ state.tag = "Done"
    /\ is_some(state.win)
    /\ state.win[1][2] = O
    /\ player_first = X
    /\ Cardinality(FreeCells(state.board)) = 3
    /\ LastMover = O

\* the number of marks on a board
Marks(squares) == Cardinality(Cells \ FreeCells(squares))

\* C20: every round ends after at least 5 and at most 9 placements: a
\* finished board has 5 to 9 marks and a board in play at most 8; each
\* confirm on a free cell adds exactly one mark, leaves the round Playing
\* while the board then has fewer than 5 marks and ends it when the board
\* then has 9; no other step of a round adds a mark. So a round in which
\* confirms on free cells keep occurring is over at the ninth at the latest.
C20_RoundLength ==
    /\ [](state.tag = "Done" => Marks(state.board) \in 5..9)
    /\ [](state.tag = "Playing" => Marks(state.board) \in 0..8)
    /\ [](FreeConfirm =>
            LET g == input_space(Game)
                n == Marks(make_move(state).board)
            IN  /\ n = Marks(state.board) + 1
                /\ Marks(g.state.board) = n
                /\ n < 5 => g.state.tag = "Playing"
                /\ n = 9 => g.state.tag = "Done")
    /\ [][state.tag = "Playing" =>
            /\ Marks(state'.board) \in {Marks(state.board), Marks(state.board) + 1}
            /\ state'.tag = "Done" => Marks(state'.board) = Marks(state.board) + 1]_vars

\* a round won with the fifth mark, the earliest possible end
C20_Witness ==
    /\ state.tag = "Done"
    /\ Marks(state.board) = 5
    /\ is_some(state.win)
    /\ state.win[1][2] = player_first

====
